---- MODULE Spec2Model ----
(***************************************************************************)
(* Model of the two weather screens of the repository:                     *)
(*   src/App.js            the themed screen with retry and pull-to-refresh *)
(*   src/unnamed/part_000  the simpler single screen                        *)
(* Strings that are searched or lower-cased are sequences of one-character *)
(* strings; strings that are only stored and compared are TLA+ strings.    *)
(***************************************************************************)
EXTENDS Integers, Sequences, FiniteSets, TLC

VARIABLES
    variant,      \* which screen is mounted: "App" (src/App.js) or "Simple" (part_000)
    mounted,      \* the mount effect has run
    weather,      \* useState(null): the stored response body
    loading,      \* useState(true)
    refreshing,   \* useState(false), App.js only
    error,        \* useState(null)
    lastUpdated,  \* useState(null), App.js only
    inv,          \* the invocations of getWeatherData: one record per slot
    latest,       \* slot of the most recently triggered invocation (0: none yet)
    condition,    \* argument handed to getWeatherTheme / getWeatherEmoji
    theme,        \* result of getWeatherTheme(condition)
    emoji         \* result of getWeatherEmoji(condition)

screenVars == <<variant, mounted, weather, loading, refreshing, error, lastUpdated, inv, latest>>
themeVars == <<condition, theme, emoji>>
vars == <<variant, mounted, weather, loading, refreshing, error, lastUpdated, inv, latest,
          condition, theme, emoji>>

----------------------------------------------------------------------------
(* Bounds *)

\* invocations of getWeatherData that may be pending at once
MaxInFlight == 2
\* distinct instants new Date() may return
MaxTime == 2
\* fragments concatenated into one condition string
MaxWords == 2

----------------------------------------------------------------------------
(* Strings: toLowerCase and includes *)

UpperCase == <<"A","B","C","D","E","F","G","H","I","J","K","L","M",
               "N","O","P","Q","R","S","T","U","V","W","X","Y","Z">>
LowerCase == <<"a","b","c","d","e","f","g","h","i","j","k","l","m",
               "n","o","p","q","r","s","t","u","v","w","x","y","z">>

toLowerCaseChar(c) ==
    IF \E k \in DOMAIN UpperCase : UpperCase[k] = c
    THEN LowerCase[CHOOSE k \in DOMAIN UpperCase : UpperCase[k] = c]
    ELSE c

toLowerCase(s) == [k \in DOMAIN s |-> toLowerCaseChar(s[k])]

includes(s, sub) ==
    \E k \in 0..(Len(s) - Len(sub)) : SubSeq(s, k + 1, k + Len(sub)) = sub

\* the keywords of the two cascades
kwClear == <<"c","l","e","a","r">>
kwSunny == <<"s","u","n","n","y">>
kwCloud == <<"c","l","o","u","d">>
kwRain == <<"r","a","i","n">>
kwDrizzle == <<"d","r","i","z","z","l","e">>
kwSnow == <<"s","n","o","w">>
kwThunder == <<"t","h","u","n","d","e","r">>
kwStorm == <<"s","t","o","r","m">>
kwMist == <<"m","i","s","t">>
kwFog == <<"f","o","g">>
kwHaze == <<"h","a","z","e">>

\* a JavaScript value handed to the mappers: null, undefined or a string
JsNull == [kind |-> "null"]
JsUndefined == [kind |-> "undefined"]
JsString(s) == [kind |-> "string", chars |-> s]
IsNullish(v) == v.kind \in {"null", "undefined"}

----------------------------------------------------------------------------
(* src/App.js getWeatherTheme *)

themeClear == [bg |-> "#FF8C42", accent |-> "#FFD166", emoji |-> "sun"]
themeCloud == [bg |-> "#6B7FA3", accent |-> "#A8BCDC", emoji |-> "cloud"]
themeRain == [bg |-> "#3A6B8A", accent |-> "#74B3D4", emoji |-> "rain"]
themeSnow == [bg |-> "#8FB4CC", accent |-> "#D6EAF8", emoji |-> "snow"]
themeStorm == [bg |-> "#2C3E50", accent |-> "#8E44AD", emoji |-> "storm"]
themeMist == [bg |-> "#7F8C8D", accent |-> "#BDC3C7", emoji |-> "fog"]
themeDefault == [bg |-> "#3B7DD8", accent |-> "#74B3D4", emoji |-> "partly-cloudy"]

\* a plausible slip: the rain test placed before the cloud test
getWeatherTheme_RainBeforeCloud(cond) ==
    LET c == IF IsNullish(cond) THEN <<>> ELSE toLowerCase(cond.chars)
    IN  IF includes(c, kwClear) THEN themeClear
        ELSE IF includes(c, kwRain) \/ includes(c, kwDrizzle) THEN themeRain
        ELSE IF includes(c, kwCloud) THEN themeCloud
        ELSE IF includes(c, kwSnow) THEN themeSnow
        ELSE IF includes(c, kwThunder) \/ includes(c, kwStorm) THEN themeStorm
        ELSE IF includes(c, kwMist) \/ includes(c, kwFog) \/ includes(c, kwHaze) THEN themeMist
        ELSE themeDefault

\* condition?.toLowerCase() || '' : null and undefined give undefined, which
\* like the empty string is falsy, so c is ''
getWeatherTheme(cond) ==
    LET c == IF IsNullish(cond) THEN <<>> ELSE toLowerCase(cond.chars)
    IN  IF includes(c, kwClear) THEN themeClear
        ELSE IF includes(c, kwCloud) THEN themeCloud
        ELSE IF includes(c, kwRain) \/ includes(c, kwDrizzle) THEN themeRain
        ELSE IF includes(c, kwSnow) THEN themeSnow
        ELSE IF includes(c, kwThunder) \/ includes(c, kwStorm) THEN themeStorm
        ELSE IF includes(c, kwMist) \/ includes(c, kwFog) \/ includes(c, kwHaze) THEN themeMist
        ELSE themeDefault

(* src/unnamed/part_000 getWeatherEmoji: description.toLowerCase() throws a
   TypeError on null and undefined *)
getWeatherEmoji(description) ==
    IF IsNullish(description) THEN "TypeError"
    ELSE LET desc == toLowerCase(description.chars)
         IN  IF includes(desc, kwClear) \/ includes(desc, kwSunny) THEN "sun"
             ELSE IF includes(desc, kwCloud) THEN "cloud"
             ELSE IF includes(desc, kwRain) THEN "rain"
             ELSE IF includes(desc, kwSnow) THEN "snow"
             ELSE IF includes(desc, kwStorm) \/ includes(desc, kwThunder) THEN "storm"
             ELSE IF includes(desc, kwMist) \/ includes(desc, kwFog) THEN "fog"
             ELSE "partly-cloudy"

----------------------------------------------------------------------------
(* JavaScript values held in the component state *)

ErrorMessage(m) == [kind |-> "string", text |-> m]
DateValue(t) == [kind |-> "date", time |-> t]

\* if (error) ... : null, undefined and '' are falsy
Truthy(v) == v.kind = "string" /\ v.text # ""

PermissionDeniedApp == "Location permission denied. Please enable it in your device settings."
PermissionDeniedSimple == "Permission to access location was denied"
FailedToFetch == "Failed to fetch weather data"

----------------------------------------------------------------------------
(* The external collaborators' outcomes *)

\* Location.requestForegroundPermissionsAsync() resolves with one of these
PermissionStatuses == {"granted", "denied", "undetermined"}

\* err.message of a rejected location call: whatever the provider reports
LocationErrors == {"", "Location request failed"}
\* err.message of a rejected fetch
NetworkErrors == {"Network request failed"}
\* err.message of the SyntaxError response.json() rejects with
JsonParseError == "JSON Parse error: Unexpected token"

Times == 1..MaxTime

Unparseable == [kind |-> "unparseable"]
\* error bodies: {message: "server error"} and one with no (or an empty) message
ErrorBodies == {[kind |-> "error", message |-> "server error"],
                [kind |-> "error", message |-> ""]}
\* success bodies: {weather: [{main}], name}
WeatherBodies == {[kind |-> "weather", main |-> <<"R","a","i","n">>, name |-> "Lima"],
                  [kind |-> "weather", main |-> <<"C","l","e","a","r">>, name |-> "Quito"]}

Responses ==
    {[ok |-> TRUE, body |-> b] : b \in WeatherBodies \cup {Unparseable}}
    \cup {[ok |-> FALSE, body |-> b] : b \in ErrorBodies \cup {Unparseable}}
NoResponse == [ok |-> FALSE, body |-> [kind |-> "none"]]

----------------------------------------------------------------------------
(* Invocations of getWeatherData *)

Slots == 1..MaxInFlight

\* pc: "free", then the await the invocation is suspended at
\*     ("perm", "pos", "fetch", "errjson", "okjson"), then "done"
FreeSlot == [pc |-> "free", mode |-> "none", status |-> "none", response |-> NoResponse,
             posReads |-> 0, httpCalls |-> 0]

InFlight == {i \in Slots : inv[i].pc \notin {"free", "done"}}
Reusable == {i \in Slots : inv[i].pc \in {"free", "done"}}
NextSlot == CHOOSE i \in Reusable : \A j \in Reusable : i <= j

\* the call of getWeatherData() up to its first await
Begin(i, mode) ==
    /\ inv' = [inv EXCEPT ![i] = [FreeSlot EXCEPT !.pc = "perm", !.mode = mode]]
    /\ latest' = i

\* a slip: the error screen tested before the loading screen
Screen_ErrorFirst ==
    IF Truthy(error) THEN "error"
    ELSE IF loading THEN "loading"
    ELSE IF weather = JsNull THEN "blank"
    ELSE "weather"

\* the render gating of both screens
Screen ==
    IF loading THEN "loading"
    ELSE IF Truthy(error) THEN "error"
    ELSE IF weather = JsNull THEN "blank"
    ELSE "weather"

----------------------------------------------------------------------------
(* src/App.js *)

\* the caller's continuation after `await getWeatherData()`: it runs in the
\* same turn of the event loop as the end of getWeatherData
ClearFlag(i) ==
    IF inv[i].mode = "load"
    THEN loading' = FALSE /\ UNCHANGED refreshing
    ELSE refreshing' = FALSE /\ UNCHANGED loading

\* catch (err) { setError(err.message) }
catch(i, message) ==
    /\ error' = ErrorMessage(message)
    /\ ClearFlag(i)
    /\ UNCHANGED <<weather, lastUpdated>>

\* useEffect(() => { load() }, [load])
MountEffect ==
    /\ variant = "App"
    /\ ~mounted
    /\ mounted' = TRUE
    /\ loading' = TRUE
    /\ Begin(NextSlot, "load")
    /\ UNCHANGED <<variant, weather, refreshing, error, lastUpdated, themeVars>>

\* <TouchableOpacity onPress={load}> on the error screen
RetryOffered == Screen = "error"

RetryPressed ==
    /\ variant = "App"
    /\ mounted
    /\ RetryOffered
    /\ Reusable # {}
    /\ loading' = TRUE
    /\ Begin(NextSlot, "load")
    /\ UNCHANGED <<variant, mounted, weather, refreshing, error, lastUpdated, themeVars>>

\* <RefreshControl onRefresh={onRefresh}> of the weather screen's ScrollView
RefreshOffered == Screen = "weather"

onRefresh ==
    /\ variant = "App"
    /\ mounted
    /\ RefreshOffered
    /\ Reusable # {}
    /\ refreshing' = TRUE
    /\ Begin(NextSlot, "refresh")
    /\ UNCHANGED <<variant, mounted, weather, loading, error, lastUpdated, themeVars>>

\* a slip: the function goes on to read the position after a denial
getWeatherData_Permission_NoReturn(i, status) ==
    /\ variant = "App"
    /\ inv[i].pc = "perm"
    /\ IF status # "granted"
       THEN /\ error' = ErrorMessage(PermissionDeniedApp)
            /\ inv' = [inv EXCEPT ![i].pc = "pos", ![i].status = status,
                                  ![i].posReads = @ + 1]
            /\ UNCHANGED <<weather, lastUpdated, loading, refreshing>>
       ELSE /\ inv' = [inv EXCEPT ![i].pc = "pos", ![i].status = status,
                                  ![i].posReads = @ + 1]
            /\ UNCHANGED <<weather, loading, refreshing, error, lastUpdated>>
    /\ UNCHANGED <<variant, mounted, latest, themeVars>>

\* requestForegroundPermissionsAsync() resolved
getWeatherData_Permission(i, status) ==
    /\ variant = "App"
    /\ inv[i].pc = "perm"
    /\ IF status # "granted"
       THEN /\ error' = ErrorMessage(PermissionDeniedApp)
            /\ inv' = [inv EXCEPT ![i].pc = "done", ![i].status = status]
            /\ ClearFlag(i)
            /\ UNCHANGED <<weather, lastUpdated>>
       ELSE /\ inv' = [inv EXCEPT ![i].pc = "pos", ![i].status = status,
                                  ![i].posReads = @ + 1]
            /\ UNCHANGED <<weather, loading, refreshing, error, lastUpdated>>
    /\ UNCHANGED <<variant, mounted, latest, themeVars>>

\* getCurrentPositionAsync() resolved: the request is built and fetch() called
getWeatherData_Position(i) ==
    /\ variant = "App"
    /\ inv[i].pc = "pos"
    /\ inv' = [inv EXCEPT ![i].pc = "fetch", ![i].httpCalls = @ + 1]
    /\ UNCHANGED <<variant, mounted, weather, loading, refreshing, error, lastUpdated,
                   latest, themeVars>>

\* fetch() resolved: response.json() is called on either branch
getWeatherData_Response(i, response) ==
    /\ variant = "App"
    /\ inv[i].pc = "fetch"
    /\ inv' = [inv EXCEPT ![i].pc = IF response.ok THEN "okjson" ELSE "errjson",
                          ![i].response = response]
    /\ UNCHANGED <<variant, mounted, weather, loading, refreshing, error, lastUpdated,
                   latest, themeVars>>

\* the location or the network call rejected
RejectionMessages(pc) ==
    IF pc \in {"perm", "pos"} THEN LocationErrors
    ELSE IF pc = "fetch" THEN NetworkErrors
    ELSE {}

getWeatherData_Rejected(i, message) ==
    /\ variant = "App"
    /\ message \in RejectionMessages(inv[i].pc)
    /\ inv' = [inv EXCEPT ![i].pc = "done"]
    /\ catch(i, message)
    /\ UNCHANGED <<variant, mounted, latest, themeVars>>

\* errData.message || 'Failed to fetch weather data'
ThrownMessage(errData) ==
    IF errData.message # "" THEN errData.message ELSE FailedToFetch

\* a slip: the provider's message is dropped
getWeatherData_ErrorBody_Generic(i) ==
    /\ variant = "App"
    /\ inv[i].pc = "errjson"
    /\ inv' = [inv EXCEPT ![i].pc = "done"]
    /\ catch(i, FailedToFetch)
    /\ UNCHANGED <<variant, mounted, latest, themeVars>>

\* !response.ok: await response.json(), then throw
getWeatherData_ErrorBody(i) ==
    /\ variant = "App"
    /\ inv[i].pc = "errjson"
    /\ inv' = [inv EXCEPT ![i].pc = "done"]
    /\ IF inv[i].response.body = Unparseable
       THEN catch(i, JsonParseError)
       ELSE catch(i, ThrownMessage(inv[i].response.body))
    /\ UNCHANGED <<variant, mounted, latest, themeVars>>

\* a slip: a failed parse of the success body clears the stored snapshot
getWeatherData_SuccessBody_Partial(i, now) ==
    /\ variant = "App"
    /\ inv[i].pc = "okjson"
    /\ inv' = [inv EXCEPT ![i].pc = "done"]
    /\ IF inv[i].response.body = Unparseable
       THEN /\ error' = ErrorMessage(JsonParseError)
            /\ weather' = JsNull
            /\ ClearFlag(i)
            /\ UNCHANGED lastUpdated
       ELSE /\ weather' = inv[i].response.body
            /\ lastUpdated' = DateValue(now)
            /\ error' = JsNull
            /\ ClearFlag(i)
    /\ UNCHANGED <<variant, mounted, latest, themeVars>>

\* response.ok: await response.json(), then the three setters
getWeatherData_SuccessBody(i, now) ==
    /\ variant = "App"
    /\ inv[i].pc = "okjson"
    /\ inv' = [inv EXCEPT ![i].pc = "done"]
    /\ IF inv[i].response.body = Unparseable
       THEN catch(i, JsonParseError)
       ELSE /\ weather' = inv[i].response.body
            /\ lastUpdated' = DateValue(now)
            /\ error' = JsNull
            /\ ClearFlag(i)
    /\ UNCHANGED <<variant, mounted, latest, themeVars>>

----------------------------------------------------------------------------
(* src/unnamed/part_000: getWeatherData sets and clears loading itself, and
   runs once, from the mount effect *)

\* finally { setLoading(false) }
Simple_finally == loading' = FALSE /\ UNCHANGED refreshing

\* catch (err) { setError(err.message) } finally { ... }
Simple_catch(message) ==
    /\ error' = ErrorMessage(message)
    /\ Simple_finally
    /\ UNCHANGED <<weather, lastUpdated>>

\* useEffect(() => { getWeatherData() }, []) up to the first await
Simple_MountEffect ==
    /\ variant = "Simple"
    /\ ~mounted
    /\ mounted' = TRUE
    /\ loading' = TRUE
    /\ Begin(NextSlot, "load")
    /\ UNCHANGED <<variant, weather, refreshing, error, lastUpdated, themeVars>>

Simple_Permission(i, status) ==
    /\ variant = "Simple"
    /\ inv[i].pc = "perm"
    /\ IF status # "granted"
       THEN /\ error' = ErrorMessage(PermissionDeniedSimple)
            /\ inv' = [inv EXCEPT ![i].pc = "done", ![i].status = status]
            /\ Simple_finally
            /\ UNCHANGED <<weather, lastUpdated>>
       ELSE /\ inv' = [inv EXCEPT ![i].pc = "pos", ![i].status = status,
                                  ![i].posReads = @ + 1]
            /\ UNCHANGED <<weather, loading, refreshing, error, lastUpdated>>
    /\ UNCHANGED <<variant, mounted, latest, themeVars>>

Simple_Position(i) ==
    /\ variant = "Simple"
    /\ inv[i].pc = "pos"
    /\ inv' = [inv EXCEPT ![i].pc = "fetch", ![i].httpCalls = @ + 1]
    /\ UNCHANGED <<variant, mounted, weather, loading, refreshing, error, lastUpdated,
                   latest, themeVars>>

\* fetch() resolved: a non-ok response throws at once, its body unread
Simple_Response(i, response) ==
    /\ variant = "Simple"
    /\ inv[i].pc = "fetch"
    /\ IF response.ok
       THEN /\ inv' = [inv EXCEPT ![i].pc = "okjson", ![i].response = response]
            /\ UNCHANGED <<weather, loading, refreshing, error, lastUpdated>>
       ELSE /\ inv' = [inv EXCEPT ![i].pc = "done", ![i].response = response]
            /\ Simple_catch(FailedToFetch)
    /\ UNCHANGED <<variant, mounted, latest, themeVars>>

Simple_Rejected(i, message) ==
    /\ variant = "Simple"
    /\ message \in RejectionMessages(inv[i].pc)
    /\ inv' = [inv EXCEPT ![i].pc = "done"]
    /\ Simple_catch(message)
    /\ UNCHANGED <<variant, mounted, latest, themeVars>>

Simple_SuccessBody(i) ==
    /\ variant = "Simple"
    /\ inv[i].pc = "okjson"
    /\ inv' = [inv EXCEPT ![i].pc = "done"]
    /\ IF inv[i].response.body = Unparseable
       THEN Simple_catch(JsonParseError)
       ELSE /\ weather' = inv[i].response.body
            /\ error' = JsNull
            /\ Simple_finally
            /\ UNCHANGED lastUpdated
    /\ UNCHANGED <<variant, mounted, latest, themeVars>>

----------------------------------------------------------------------------
(* The screens *)

NoTheme == [bg |-> "none", accent |-> "none", emoji |-> "none"]

\* the useState initial values of both components
InitScreen ==
    /\ variant \in {"App", "Simple"}
    /\ mounted = FALSE
    /\ weather = JsNull
    /\ loading = TRUE
    /\ refreshing = FALSE
    /\ error = JsNull
    /\ lastUpdated = JsNull
    /\ inv = [i \in Slots |-> FreeSlot]
    /\ latest = 0

Init ==
    /\ InitScreen
    /\ condition = JsNull
    /\ theme = NoTheme
    /\ emoji = "none"

Next ==
    \/ MountEffect
    \/ RetryPressed
    \/ onRefresh
    \/ \E i \in Slots, status \in PermissionStatuses : getWeatherData_Permission(i, status)
    \/ \E i \in Slots : getWeatherData_Position(i)
    \/ \E i \in Slots, response \in Responses : getWeatherData_Response(i, response)
    \/ \E i \in Slots, message \in LocationErrors \cup NetworkErrors :
           getWeatherData_Rejected(i, message)
    \/ \E i \in Slots : getWeatherData_ErrorBody(i)
    \/ \E i \in Slots, now \in Times : getWeatherData_SuccessBody(i, now)
    \/ Simple_MountEffect
    \/ \E i \in Slots, status \in PermissionStatuses : Simple_Permission(i, status)
    \/ \E i \in Slots : Simple_Position(i)
    \/ \E i \in Slots, response \in Responses : Simple_Response(i, response)
    \/ \E i \in Slots, message \in LocationErrors \cup NetworkErrors :
           Simple_Rejected(i, message)
    \/ \E i \in Slots : Simple_SuccessBody(i)

Spec == Init /\ [][Next]_vars

----------------------------------------------------------------------------
(* The presentation mappers, applied to bounded condition strings *)

Words ==
    {kwClear, kwSunny, kwCloud, kwRain, kwDrizzle, kwSnow, kwThunder, kwStorm,
     kwMist, kwFog, kwHaze,
     <<"R","a","i","n">>, <<"C","L","E","A","R">>, <<"C","l","o","u","d","s">>,
     <<"r","a","i">>, <<"n">>, <<"c","l","o","u">>, <<"d">>,
     <<"l","i","g","h","t"," ">>, <<"S","m","o","k","e">>}

RECURSIVE Phrases(_)
Phrases(n) ==
    IF n = 0 THEN {<<>>}
    ELSE Phrases(n - 1) \cup {p \o w : p \in Phrases(n - 1), w \in Words}

ConditionInputs == {JsNull, JsUndefined} \cup {JsString(p) : p \in Phrases(MaxWords)}

ThemeInit ==
    /\ InitScreen
    /\ condition \in ConditionInputs
    /\ theme = NoTheme
    /\ emoji = "none"

\* src/App.js: const theme = getWeatherTheme(condition)
RenderTheme ==
    /\ variant = "App"
    /\ theme' = getWeatherTheme(condition)
    /\ UNCHANGED <<screenVars, condition, emoji>>

\* part_000: const emoji = getWeatherEmoji(description)
Simple_RenderEmoji ==
    /\ variant = "Simple"
    /\ emoji' = getWeatherEmoji(condition)
    /\ UNCHANGED <<screenVars, condition, theme>>

ThemeNext == RenderTheme \/ Simple_RenderEmoji

ThemeSpec == ThemeInit /\ [][ThemeNext]_vars

----------------------------------------------------------------------------
(* Properties *)

Completes(i) == inv[i].pc \notin {"free", "done"} /\ inv'[i].pc = "done"

PermissionDeniedMessage ==
    ErrorMessage(IF variant = "App" THEN PermissionDeniedApp ELSE PermissionDeniedSimple)

\* the screen state the render gating shows once no flag is set
Failed == Truthy(error)
Ready == error = JsNull /\ weather # JsNull

(* C1: an invocation whose permission request returns a status other than
   'granted' stops there: it has read no position and issued no HTTP request,
   and the step that learns the status stores the permission-denied message. *)
C1_DeniedStopsBeforePosition ==
    \A i \in Slots :
        inv[i].status \notin {"none", "granted"}
            => inv[i].pc = "done" /\ inv[i].posReads = 0 /\ inv[i].httpCalls = 0

C1_DeniedStoresMessage ==
    \A i \in Slots :
        (inv[i].pc = "perm" /\ inv'[i].status \notin {"none", "granted"})
            => inv'[i].pc = "done" /\ error' = PermissionDeniedMessage

C1_PermissionDenialShortCircuits ==
    [](C1_DeniedStopsBeforePosition) /\ [][C1_DeniedStoresMessage]_vars

C1_Witness ==
    \E i \in Slots :
        /\ inv[i].pc = "done"
        /\ inv[i].mode = "refresh"
        /\ inv[i].status = "denied"
        /\ inv[i].httpCalls = 0
        /\ error = PermissionDeniedMessage

(* C2: once an invocation has completed, the screen state is exactly one of
   Failed (an error is shown) and Ready (a snapshot is stored and the error is
   cleared): never neither. *)
C2_ExactlyOneOutcome ==
    (\E i \in Slots : inv[i].pc = "done") => (Failed \/ Ready) /\ ~(Failed /\ Ready)

C4_UnparseableErrorBodyGeneric ==
    [][\A i \in Slots :
          (/\ Completes(i)
           /\ inv'[i].httpCalls = 1
           /\ ~inv'[i].response.ok
           /\ inv'[i].response.body = Unparseable)
              => error' = ErrorMessage(FailedToFetch)]_vars

(* C5: getWeatherTheme is total and first-match-wins over the groups clear,
   cloud, rain/drizzle, snow, thunder/storm, mist/fog/haze, in that order, on
   the lower-cased input (null and undefined count as the empty string); with
   no keyword it gives the default theme. *)
C5_Groups ==
    <<{kwClear}, {kwCloud}, {kwRain, kwDrizzle}, {kwSnow}, {kwThunder, kwStorm},
      {kwMist, kwFog, kwHaze}>>
C5_Themes == <<themeClear, themeCloud, themeRain, themeSnow, themeStorm, themeMist>>
C5_Text(v) == IF IsNullish(v) THEN <<>> ELSE toLowerCase(v.chars)
C5_Matching(v) ==
    {g \in DOMAIN C5_Groups : \E k \in C5_Groups[g] : includes(C5_Text(v), k)}
C5_Expected(v) ==
    IF C5_Matching(v) = {} THEN themeDefault
    ELSE C5_Themes[CHOOSE g \in C5_Matching(v) : \A h \in C5_Matching(v) : g <= h]

C5_ThemeFirstMatchWins ==
    (variant = "App" /\ theme # NoTheme) => theme = C5_Expected(condition)

C5_Witness ==
    /\ theme = themeCloud
    /\ ~IsNullish(condition)
    /\ includes(C5_Text(condition), kwRain)
    /\ condition.chars # C5_Text(condition)

(* C6: at most one of the loading and refreshing flags is set. *)
C6_OneLoadingFlag == ~(loading /\ refreshing)

C6_Witness ==
    /\ loading
    /\ \E i \in InFlight : inv[i].mode = "refresh"
    /\ \E i \in InFlight : inv[i].mode = "load"

(* C7: whenever neither loading flag is set, either a non-empty error message
   is stored, or the error is cleared and a snapshot is stored. *)
C7_SettledIsFailedOrReady ==
    (~loading /\ ~refreshing) => (Truthy(error) \/ (error = JsNull /\ weather # JsNull))

(* C8: every change of the derived FetchState follows a listed edge. *)
FetchState ==
    IF loading THEN "Loading"
    ELSE IF refreshing THEN "Refreshing"
    ELSE IF Failed THEN "Failed"
    ELSE IF Ready THEN "Ready"
    ELSE "None"

C8_Edges ==
    {<<"Loading", "Ready">>, <<"Loading", "Failed">>, <<"Ready", "Refreshing">>,
     <<"Refreshing", "Ready">>, <<"Refreshing", "Failed">>, <<"Failed", "Loading">>}

C8_ListedEdgesOnly ==
    [][FetchState' # FetchState => <<FetchState, FetchState'>> \in C8_Edges]_vars

(* C8 on the steps between states whose stored error is not the empty string:
   the overlapping invocations alone already leave the listed edges. *)
C8_NonEmptyReason == error.kind = "string" => error.text # ""

C8_ListedEdgesOnly_NonEmptyReasons ==
    [][(C8_NonEmptyReason /\ C8_NonEmptyReason' /\ FetchState' # FetchState)
           => <<FetchState, FetchState'>> \in C8_Edges]_vars

(* C9: at most one invocation is in flight, and only the most recently
   triggered invocation completes (and so writes the stored state). *)
C9_OneInFlight == Cardinality(InFlight) <= 1

C9_SingleOwner ==
    [](C9_OneInFlight) /\ [][\A i \in Slots : Completes(i) => i = latest]_vars

(* C10: the snapshot and lastUpdated change only in the step of an invocation
   that ends in success, which stores the parsed body, a date (src/App.js) and
   error = null together; a failing invocation leaves both unchanged; and on
   src/App.js lastUpdated is non-null exactly when a snapshot is stored. *)
C10_Succeeds(i) ==
    /\ inv[i].pc = "okjson"
    /\ inv'[i].pc = "done"
    /\ inv[i].response.body \in WeatherBodies

C10_WholesaleStep ==
    /\ (weather' # weather \/ lastUpdated' # lastUpdated)
           => \E i \in Slots : C10_Succeeds(i)
    /\ \A i \in Slots :
           C10_Succeeds(i)
               => /\ weather' = inv[i].response.body
                  /\ error' = JsNull
                  /\ variant = "App" => lastUpdated' \in {DateValue(t) : t \in Times}
    /\ \A i \in Slots :
           (Completes(i) /\ ~C10_Succeeds(i))
               => weather' = weather /\ lastUpdated' = lastUpdated /\ error' # JsNull

C10_DatedIffStored == variant = "App" => (lastUpdated # JsNull <=> weather # JsNull)

C10_SnapshotReplacedWholesale ==
    [](C10_DatedIffStored) /\ [][C10_WholesaleStep]_vars

C10_Witness ==
    \E i \in Slots :
        /\ inv[i].pc = "done"
        /\ inv[i].mode = "refresh"
        /\ inv[i].response = [ok |-> TRUE, body |-> Unparseable]
        /\ error = ErrorMessage(JsonParseError)
        /\ weather # JsNull
        /\ lastUpdated # JsNull

====
